---- MODULE Spec2Model ----
(***************************************************************************)
(* The user-management REST service (app/api/user.py) and the dependency   *)
(* that scopes a store session to a request (get_db, in both services).    *)
(*                                                                         *)
(* The store is the "users" table: a sequence of rows in primary-key       *)
(* order.  The handlers of app/api/user.py are operators from a store and  *)
(* a request to a response and a new store; the app.crud.user functions    *)
(* they call are not part of the sources at hand and follow the            *)
(* specification's description of the storage collaborator.                *)
(***************************************************************************)
EXTENDS Integers, Sequences, FiniteSets, TLC

VARIABLES
    users,      \* the users table, rows in primary-key order
    nextId,     \* the identifier the store hands to the next inserted row
    assigned,   \* history: every identifier ever handed out
    last,       \* history: the last completed request and its response
    req,        \* per worker thread: the request it is serving
    session,    \* per worker thread: the store session of its request
    acquired,   \* per worker thread: sessions opened for its request
    started,    \* number of requests accepted so far
    seenAt      \* history: id -> value of nextId when its creator checked the email

vars == <<users, nextId, assigned, last, req, session, acquired, started, seenAt>>

----------------------------------------------------------------------------
(* Bounds of the model *)

MaxId == 3          \* identifiers handed out in one process lifetime
MaxSkip == 10       \* largest explicit skip of a list request
MaxLimit == 2       \* largest explicit limit of a list request
MaxRequests == 3    \* requests accepted by the worker threads

(* Value domains *)

Emails == {"a@x.com", "b@x.com"}
Usernames == {"alice", "bob"}
Workers == {"w1", "w2"}

Absent == "<absent>"
None == [id |-> 0, email |-> "", username |-> ""]
Ids == 1..MaxId

UserCreate == [email : Emails, username : Usernames]
UserUpdate == [email : Emails \cup {Absent}, username : Usernames \cup {Absent}]

Min(a, b) == IF a < b THEN a ELSE b
Max(a, b) == IF a > b THEN a ELSE b

----------------------------------------------------------------------------
(* The storage collaborator, app.crud.user *)

get_user_by_email(db, email) ==
    LET m == SelectSeq(db, LAMBDA r : r.email = email)
    IN  IF m = <<>> THEN None ELSE Head(m)

get_user_by_username(db, username) ==
    LET m == SelectSeq(db, LAMBDA r : r.username = username)
    IN  IF m = <<>> THEN None ELSE Head(m)

get_user_by_id(db, user_id) ==
    LET m == SelectSeq(db, LAMBDA r : r.id = user_id)
    IN  IF m = <<>> THEN None ELSE Head(m)

crud_get_users(db, skip, limit) ==
    SubSeq(db, skip + 1, Min(Len(db), skip + limit))

MaxStoredId(db) ==
    IF db = <<>> THEN 0
    ELSE CHOOSE m \in {db[i].id : i \in DOMAIN db} :
            \A i \in DOMAIN db : db[i].id <= m

ReusedId(db, counter) == MaxStoredId(db) + 1

FreshId(db, counter) == counter

crud_create_user(db, counter, user) ==
    Append(db, [id |-> FreshId(db, counter),
                email |-> user.email,
                username |-> user.username])

crud_update_user(db, db_user, user_update) ==
    [i \in DOMAIN db |->
        IF db[i].id = db_user.id
        THEN [id |-> db[i].id,
              email |-> IF user_update.email = Absent
                        THEN db[i].email ELSE user_update.email,
              username |-> IF user_update.username = Absent
                           THEN db[i].username ELSE user_update.username]
        ELSE db[i]]

crud_delete_user(db, db_user) ==
    SelectSeq(db, LAMBDA r : r.id # db_user.id)

----------------------------------------------------------------------------
(* The handlers of app/api/user.py: response and resulting store *)

Response(status, detail, body, db) ==
    [status |-> status, detail |-> detail, body |-> body, db |-> db]

email_registered_unchecked(db, user) == FALSE

email_registered(db, user) == get_user_by_email(db, user.email) # None

username_registered(db, user) == get_user_by_username(db, user.username) # None

create_user_username_first(user, db, counter) ==
    IF username_registered(db, user)
    THEN Response(400, "Username already registered", <<>>, db)
    ELSE IF email_registered(db, user)
    THEN Response(400, "Email already registered", <<>>, db)
    ELSE LET db2 == crud_create_user(db, counter, user)
         IN  Response(201, "", <<db2[Len(db2)]>>, db2)

create_user_email_only(user, db, counter) ==
    IF email_registered(db, user)
    THEN Response(400, "Email already registered", <<>>, db)
    ELSE LET db2 == crud_create_user(db, counter, user)
         IN  Response(201, "", <<db2[Len(db2)]>>, db2)

create_user(user, db, counter) ==
    IF email_registered(db, user)
    THEN Response(400, "Email already registered", <<>>, db)
    ELSE IF username_registered(db, user)
    THEN Response(400, "Username already registered", <<>>, db)
    ELSE LET db2 == crud_create_user(db, counter, user)
         IN  Response(201, "", <<db2[Len(db2)]>>, db2)

get_user_unchecked(user_id, db) ==
    Response(200, "", <<get_user_by_id(db, user_id)>>, db)

get_user(user_id, db) ==
    LET db_user == get_user_by_id(db, user_id)
    IN  IF db_user = None
        THEN Response(404, "User not found", <<>>, db)
        ELSE Response(200, "", <<db_user>>, db)

DefaultSkip == 0
DefaultLimit == 100

get_users_swapped(skip, limit, db) ==
    Response(200, "", crud_get_users(db, limit, skip), db)

get_users(skip, limit, db) ==
    Response(200, "", crud_get_users(db, skip, limit), db)

update_user_first_row(user_id, user_update, db) ==
    LET db_user == get_user_by_id(db, user_id)
    IN  IF db_user = None
        THEN Response(404, "User not found", <<>>, db)
        ELSE LET db2 == crud_update_user(db, Head(db), user_update)
             IN  Response(200, "", <<get_user_by_id(db2, Head(db).id)>>, db2)

update_user(user_id, user_update, db) ==
    LET db_user == get_user_by_id(db, user_id)
    IN  IF db_user = None
        THEN Response(404, "User not found", <<>>, db)
        ELSE LET db2 == crud_update_user(db, db_user, user_update)
             IN  Response(200, "", <<get_user_by_id(db2, user_id)>>, db2)

delete_user_keeps_row(user_id, db) ==
    LET db_user == get_user_by_id(db, user_id)
    IN  IF db_user = None
        THEN Response(404, "User not found", <<>>, db)
        ELSE Response(204, "", <<>>, db)

delete_user(user_id, db) ==
    LET db_user == get_user_by_id(db, user_id)
    IN  IF db_user = None
        THEN Response(404, "User not found", <<>>, db)
        ELSE Response(204, "", <<>>, crud_delete_user(db, db_user))

----------------------------------------------------------------------------
(* Requests served one at a time *)

Last(op, id, email, username, skip, limit, r) ==
    [op |-> op, id |-> id, email |-> email, username |-> username,
     skip |-> skip, limit |-> limit,
     status |-> r.status, detail |-> r.detail, body |-> r.body]

NoRequest ==
    [op |-> "none", id |-> 0, email |-> "", username |-> "",
     skip |-> 0, limit |-> 0, status |-> 0, detail |-> "", body |-> <<>>]

IdleRequest ==
    [op |-> "none", pc |-> "idle", email |-> "", username |-> "", status |-> 0,
     seen |-> 0]

Init ==
    /\ users = <<>>
    /\ nextId = 1
    /\ assigned = {}
    /\ last = NoRequest
    /\ req = [w \in Workers |-> IdleRequest]
    /\ session = [w \in Workers |-> "none"]
    /\ acquired = [w \in Workers |-> 0]
    /\ started = 0
    /\ seenAt = <<>>

WorkersIdle == UNCHANGED <<req, session, acquired, started, seenAt>>

CreateUser ==
    \E user \in UserCreate :
        LET r == create_user(user, users, nextId)
        IN  /\ r.status = 201 => r.body[1].id <= MaxId
            /\ users' = r.db
            /\ nextId' = IF r.status = 201 THEN nextId + 1 ELSE nextId
            /\ assigned' = IF r.status = 201
                           THEN assigned \cup {r.body[1].id} ELSE assigned
            /\ last' = Last("create", IF r.status = 201 THEN r.body[1].id ELSE 0,
                            user.email, user.username, 0, 0, r)
            /\ WorkersIdle

GetUser ==
    \E user_id \in Ids :
        LET r == get_user(user_id, users)
        IN  /\ users' = r.db
            /\ last' = Last("get", user_id, "", "", 0, 0, r)
            /\ UNCHANGED <<nextId, assigned>>
            /\ WorkersIdle

UpdateUser ==
    \E user_id \in Ids, user_update \in UserUpdate :
        LET r == update_user(user_id, user_update, users)
        IN  /\ users' = r.db
            /\ last' = Last("update", user_id, user_update.email,
                            user_update.username, 0, 0, r)
            /\ UNCHANGED <<nextId, assigned>>
            /\ WorkersIdle

DeleteUser ==
    \E user_id \in Ids :
        LET r == delete_user(user_id, users)
        IN  /\ users' = r.db
            /\ last' = Last("delete", user_id, "", "", 0, 0, r)
            /\ UNCHANGED <<nextId, assigned>>
            /\ WorkersIdle

GetUsers ==
    \E skip \in (0..MaxSkip) \cup {DefaultSkip},
       limit \in (0..MaxLimit) \cup {DefaultLimit} :
        LET r == get_users(skip, limit, users)
        IN  /\ users' = r.db
            /\ last' = Last("list", 0, "", "", skip, limit, r)
            /\ UNCHANGED <<nextId, assigned>>
            /\ WorkersIdle

Next == CreateUser \/ GetUser \/ UpdateUser \/ DeleteUser

Spec == Init /\ [][Next]_vars

----------------------------------------------------------------------------
(* List requests over a seeded store *)

SeedEmails == <<"u1@x.com", "u2@x.com", "u3@x.com", "u4@x.com", "u5@x.com">>
SeedUsernames == <<"u1", "u2", "u3", "u4", "u5">>

SeedUsers ==
    [i \in DOMAIN SeedEmails |->
        [id |-> i, email |-> SeedEmails[i], username |-> SeedUsernames[i]]]

InitList ==
    /\ users \in {SubSeq(SeedUsers, 1, n) : n \in 0..Len(SeedUsers)}
    /\ nextId = Len(users) + 1
    /\ assigned = 1..Len(users)
    /\ last = NoRequest
    /\ req = [w \in Workers |-> IdleRequest]
    /\ session = [w \in Workers |-> "none"]
    /\ acquired = [w \in Workers |-> 0]
    /\ started = 0
    /\ seenAt = <<>>

NextList == GetUsers \/ DeleteUser

SpecList == InitList /\ [][NextList]_vars

----------------------------------------------------------------------------
(* Requests served concurrently by the worker threads, each with the store *)
(* session that get_db scopes to it                                        *)

get_db_enter(sess) == "open"

get_db_exit_without_finally(sess, status) ==
    IF status \in {200, 201, 204} THEN "closed" ELSE sess

get_db_exit(sess, status) == "closed"

Serving(w, op, user) ==
    [op |-> op, pc |-> "handler", email |-> user.email,
     username |-> user.username, status |-> 0, seen |-> 0]

Exited(w, status) == [req EXCEPT ![w].pc = "exited", ![w].status = status]

Accept(w, op, user) ==
    /\ req[w].pc \in {"idle", "done"}
    /\ started < MaxRequests
    /\ started' = started + 1
    /\ session' = [session EXCEPT ![w] = get_db_enter(session[w])]
    /\ acquired' = [acquired EXCEPT ![w] = 1]
    /\ req' = [req EXCEPT ![w] = Serving(w, op, user)]
    /\ UNCHANGED <<users, nextId, assigned, last, seenAt>>

AcceptCreate(w) == \E user \in UserCreate : Accept(w, "create", user)

AcceptOther(w) ==
    \E op \in {"get", "list", "update", "delete", "subjects"} :
        Accept(w, op, None)

CheckEmail(w) ==
    /\ req[w].op = "create"
    /\ req[w].pc = "handler"
    /\ req' = IF email_registered(users, req[w])
              THEN Exited(w, 400)
              ELSE [req EXCEPT ![w].pc = "email_ok", ![w].seen = nextId]
    /\ UNCHANGED <<users, nextId, assigned, last, session, acquired, started, seenAt>>

CheckUsername(w) ==
    /\ req[w].op = "create"
    /\ req[w].pc = "email_ok"
    /\ req' = IF username_registered(users, req[w])
              THEN Exited(w, 400)
              ELSE [req EXCEPT ![w].pc = "username_ok"]
    /\ UNCHANGED <<users, nextId, assigned, last, session, acquired, started, seenAt>>

Insert(w) ==
    /\ req[w].op = "create"
    /\ req[w].pc = "username_ok"
    /\ nextId <= MaxId
    /\ users' = crud_create_user(users, nextId, req[w])
    /\ nextId' = nextId + 1
    /\ assigned' = assigned \cup {users'[Len(users')].id}
    /\ seenAt' = (users'[Len(users')].id :> req[w].seen) @@ seenAt
    /\ req' = Exited(w, 201)
    /\ UNCHANGED <<last, session, acquired, started>>

HandleUser(w) ==
    /\ req[w].pc = "handler"
    /\ \E user_id \in Ids, user_update \in UserUpdate :
          LET r == CASE req[w].op = "get" -> get_user(user_id, users)
                     [] req[w].op = "update" -> update_user(user_id, user_update, users)
                     [] req[w].op = "delete" -> delete_user(user_id, users)
                     [] OTHER -> Response(0, "", <<>>, users)
          IN  /\ r.status # 0
              /\ users' = r.db
              /\ req' = Exited(w, r.status)
    /\ UNCHANGED <<nextId, assigned, last, session, acquired, started, seenAt>>

HandleList(w) ==
    /\ req[w].pc = "handler"
    /\ req[w].op = "list"
    /\ req' = Exited(w, get_users(DefaultSkip, DefaultLimit, users).status)
    /\ UNCHANGED <<users, nextId, assigned, last, session, acquired, started, seenAt>>

get_subjects_faculty(w) ==
    /\ req[w].pc = "handler"
    /\ req[w].op = "subjects"
    /\ req' = Exited(w, 200)
    /\ UNCHANGED <<users, nextId, assigned, last, session, acquired, started, seenAt>>

StoreFails(w) ==
    /\ req[w].pc \in {"handler", "email_ok", "username_ok"}
    /\ req' = Exited(w, 500)
    /\ UNCHANGED <<users, nextId, assigned, last, session, acquired, started, seenAt>>

Release(w) ==
    /\ req[w].pc = "exited"
    /\ session' = [session EXCEPT ![w] = get_db_exit(session[w], req[w].status)]
    /\ req' = [req EXCEPT ![w].pc = "done"]
    /\ UNCHANGED <<users, nextId, assigned, last, acquired, started, seenAt>>

NextRace ==
    \E w \in Workers :
        \/ AcceptCreate(w)
        \/ CheckEmail(w)
        \/ CheckUsername(w)
        \/ Insert(w)
        \/ StoreFails(w)
        \/ Release(w)

SpecRace == Init /\ [][NextRace]_vars

NextSession ==
    \E w \in Workers :
        \/ AcceptCreate(w)
        \/ AcceptOther(w)
        \/ CheckEmail(w)
        \/ CheckUsername(w)
        \/ Insert(w)
        \/ HandleUser(w)
        \/ HandleList(w)
        \/ get_subjects_faculty(w)
        \/ StoreFails(w)
        \/ Release(w)

SpecSession == Init /\ [][NextSession]_vars

----------------------------------------------------------------------------
(* Properties of the requests served one at a time *)

HasEmail(db, email) == \E i \in DOMAIN db : db[i].email = email
HasUsername(db, username) == \E i \in DOMAIN db : db[i].username = username
HasId(db, id) == \E i \in DOMAIN db : db[i].id = id

\* C1: in every reachable state no two distinct stored users have the same
\* email and no two distinct stored users have the same username.
UniqueEmailAndUsername ==
    \A i, j \in DOMAIN users :
        i # j => /\ users[i].email # users[j].email
                 /\ users[i].username # users[j].username

\* C2: a CreateUser whose email or whose username is already held by a stored
\* user is answered 400, and the stored users and their count are unchanged.
CreateConflictLeavesStore ==
    [][(/\ last'.op = "create"
        /\ HasEmail(users, last'.email) \/ HasUsername(users, last'.username))
       => /\ last'.status = 400
          /\ users' = users
          /\ Len(users') = Len(users)]_vars

CreateConflictOnUsernameOnly ==
    /\ last.op = "create"
    /\ last.status = 400
    /\ ~HasEmail(users, last.email)
    /\ HasUsername(users, last.username)

\* C3: CreateUser checks the email before the username: a taken email is
\* reported as the email conflict even when the username is taken too, and the
\* username conflict is reported only when the email is free.
EmailCheckedBeforeUsername ==
    [][last'.op = "create"
       => /\ HasEmail(users, last'.email)
                => /\ last'.status = 400
                   /\ last'.detail = "Email already registered"
          /\ last'.detail = "Username already registered"
                => /\ last'.status = 400
                   /\ ~HasEmail(users, last'.email)
                   /\ HasUsername(users, last'.username)]_vars

CreateConflictOnBoth ==
    /\ last.op = "create"
    /\ last.detail = "Email already registered"
    /\ HasEmail(users, last.email)
    /\ HasUsername(users, last.username)
    /\ get_user_by_email(users, last.email) # get_user_by_username(users, last.username)

\* C4: a successful UpdateUser(id, partial) overwrites exactly the fields
\* present in the partial input, and leaves the absent fields of that user, its
\* identifier and every other stored user unchanged.
UpdateOverwritesPresentFieldsOnly ==
    [][(last'.op = "update" /\ last'.status = 200)
       => /\ Len(users') = Len(users)
          /\ \A i \in DOMAIN users :
                IF users[i].id = last'.id
                THEN /\ users'[i].id = users[i].id
                     /\ users'[i].email =
                            IF last'.email = Absent
                            THEN users[i].email ELSE last'.email
                     /\ users'[i].username =
                            IF last'.username = Absent
                            THEN users[i].username ELSE last'.username
                     /\ last'.body = <<users'[i]>>
                ELSE users'[i] = users[i]]_vars

UpdatedOneFieldOfSecondUser ==
    /\ last.op = "update"
    /\ last.status = 200
    /\ last.email # Absent
    /\ last.username = Absent
    /\ Len(users) >= 2
    /\ users[2].id = last.id
    /\ users[2].email = last.email
    /\ users[1].email # last.email

\* C5: the identifier given to a newly created user differs from every
\* identifier assigned before, those of deleted users included.
CreatedIdNeverAssignedBefore ==
    [][(last'.op = "create" /\ last'.status = 201)
       => /\ last'.id \notin assigned
          /\ ~HasId(users, last'.id)
          /\ HasId(users', last'.id)]_vars

CreatedAfterHighestIdDeleted ==
    /\ last.op = "create"
    /\ last.status = 201
    /\ \E a \in assigned :
          /\ a # last.id
          /\ ~HasId(users, a)
          /\ \A i \in DOMAIN users : users[i].id # last.id => users[i].id < a

\* C6: a successful DeleteUser(id) removes the user with that identifier and
\* no other, and a GetUser(id) in the resulting state is answered 404.
DeleteRemovesExactlyThatUser ==
    [][(last'.op = "delete" /\ last'.status = 204)
       => /\ HasId(users, last'.id)
          /\ users' = SelectSeq(users, LAMBDA r : r.id # last'.id)
          /\ get_user(last'.id, users').status = 404]_vars

DeletedOneOfTwoUsers ==
    /\ last.op = "delete"
    /\ last.status = 204
    /\ Len(users) >= 1
    /\ last.id \in assigned
    /\ ~HasId(users, last.id)

\* C7: GetUser, UpdateUser and DeleteUser with an identifier no stored user
\* has are answered 404 and leave the store unchanged.
MissingIdIsNotFound ==
    [][(last'.op \in {"get", "update", "delete"} /\ ~HasId(users, last'.id))
       => /\ last'.status = 404
          /\ users' = users]_vars

NotFoundOnNonEmptyStore ==
    /\ last.op \in {"update", "delete"}
    /\ last.status = 404
    /\ users # <<>>

----------------------------------------------------------------------------
(* Properties of list requests *)

\* C8: ListUsers(offset, limit) is answered 200 with the rows of the store's
\* ordered sequence that follow the first offset rows, at most limit of them:
\* min(limit, max(0, N - offset)) rows; the store is unchanged.
ListReturnsSliceOfStore ==
    [][last'.op = "list"
       => /\ last'.status = 200
          /\ users' = users
          /\ Len(last'.body) = Min(last'.limit, Max(0, Len(users) - last'.skip))
          /\ \A i \in DOMAIN last'.body :
                last'.body[i] = users[last'.skip + i]]_vars

ListedLastOfFiveUsers ==
    /\ last.op = "list"
    /\ Len(users) = 5
    /\ last.skip = 4
    /\ last.limit = 2
    /\ last.body = <<users[5]>>

----------------------------------------------------------------------------
(* Properties of the concurrent requests *)

\* C9: two concurrent CreateUser requests with the same email can both pass
\* the email check before either inserts, and then both insert: whenever two
\* stored users share an email, the later one's creator checked the email
\* before the earlier one was inserted.
DuplicateEmailOnlyByStaleCheck ==
    \A i, j \in DOMAIN users :
        (i < j /\ users[i].email = users[j].email)
            => seenAt[users[j].id] <= users[i].id

RaceStoredDuplicateEmail ==
    /\ started = 2
    /\ Len(users) = 2
    /\ users[1].email = users[2].email
    /\ \A w \in Workers :
          /\ req[w].op = "create"
          /\ req[w].status = 201
          /\ req[w].email = users[1].email

\* C10: a request holds exactly one store session while it is served, and once
\* it has completed, by a normal return, a 400, a 404 or an internal error,
\* that session is closed.
SessionClosedOnEveryExit ==
    \A w \in Workers :
        /\ req[w].pc = "idle" => session[w] = "none" /\ acquired[w] = 0
        /\ req[w].pc \in {"handler", "email_ok", "username_ok", "exited"}
              => session[w] = "open" /\ acquired[w] = 1
        /\ req[w].pc = "done" => session[w] = "closed" /\ acquired[w] = 1

CompletedAfterErrors ==
    \E w, v \in Workers :
        /\ req[w].pc = "done" /\ req[w].status = 500 /\ session[w] = "closed"
        /\ req[v].pc = "done" /\ req[v].status \in {400, 404} /\ session[v] = "closed"

====
